---- MODULE Spec2Model ----
(***************************************************************************)
(* Model of the Stock Watchlist Generator: the two scripts                 *)
(* stock_watchlist_app.py (CSV export, cached download, SMA charts) and    *)
(* "stock_watchlist (2).py" (Excel export, SMA + RSI + MACD charts).       *)
(*                                                                         *)
(* Floats are modelled as exact fractions <<n, d>> in lowest terms with    *)
(* d > 0; <<0, 0>> is NaN, <<1, 0>> is +inf and <<-1, 0>> is -inf, with    *)
(* the IEEE rules for them (x/0, inf + x, 0/0, NaN propagation).           *)
(* Strings are sequences of one-character strings.                         *)
(***************************************************************************)
EXTENDS Integers, Sequences, FiniteSets, TLC

VARIABLES
    variant,        \* "csv": stock_watchlist_app.py, "xlsx": stock_watchlist (2).py
    pc,             \* position of the script
    tickers_input,  \* st.text_input value
    tickers,        \* normalised ticker list
    i,              \* index of the loop in progress (1-based)
    data,           \* list of metric rows
    hist_data,      \* dict ticker -> Close series, as a list of <<key, value>> in insertion order
    cache,          \* st.cache_data entries of fetch_price_data (csv variant)
    errors,         \* st.error messages, by ticker
    warnings,       \* st.warning messages, by ticker
    calls,          \* external provider calls issued, in order
    charts,         \* charts plotted, in order
    avg,            \* the three summary averages
    returns,        \* the heatmap's returns frame
    Close,          \* hist["Close"] of the indicator computation
    SMA20, SMA50, RSI, exp1, exp2, MACD, Signal

vars == <<variant, pc, tickers_input, tickers, i, data, hist_data, cache, errors,
          warnings, calls, charts, avg, returns,
          Close, SMA20, SMA50, RSI, exp1, exp2, MACD, Signal>>

runVars == <<variant, pc, tickers_input, tickers, i, data, hist_data, cache, errors,
             warnings, calls, charts, avg, returns>>
indVars == <<Close, SMA20, SMA50, RSI, exp1, exp2, MACD, Signal>>

-----------------------------------------------------------------------------
(* Bounds of the model *)

MaxTokens == 3      \* comma-separated pieces of the text input
MaxRows == 3        \* rows of a metrics table drawn directly
MaxDate == 4        \* trading days of a price series drawn directly
MaxLen == 51        \* length of the one-step close series
MaxRsiLen == 16     \* length of the two-step close series
MaxEmaLen == 2      \* length of the free close series: the exact fractions of
                    \* MACD and Signal outgrow TLC's integers after a few points

-----------------------------------------------------------------------------
(* Float arithmetic *)

NaN == <<0, 0>>

Abs(x) == IF x < 0 THEN -x ELSE x
Sign(x) == IF x < 0 THEN -1 ELSE IF x > 0 THEN 1 ELSE 0

RECURSIVE GCD(_, _)
GCD(a, b) == IF b = 0 THEN a ELSE GCD(b, a % b)

\* the float n/d, d /= 0
Norm(n, d) ==
    LET g == GCD(Abs(n), Abs(d))
        s == IF d < 0 THEN -1 ELSE 1
    IN  <<s * (n \div g), s * (d \div g)>>

Num(v) == <<v, 1>>
IsNaN(x) == x = NaN
IsInf(x) == x[2] = 0 /\ x[1] /= 0
IsFinite(x) == x[2] /= 0

FNeg(x) == <<-x[1], x[2]>>

FAdd(x, y) ==
    IF IsNaN(x) \/ IsNaN(y) THEN NaN
    ELSE IF IsInf(x) /\ IsInf(y) THEN (IF x = y THEN x ELSE NaN)
    ELSE IF IsInf(x) THEN x
    ELSE IF IsInf(y) THEN y
    ELSE LET g == GCD(x[2], y[2])
             l == (x[2] \div g) * y[2]
         IN  Norm(x[1] * (l \div x[2]) + y[1] * (l \div y[2]), l)

FSub(x, y) == FAdd(x, FNeg(y))

FMul(x, y) ==
    IF IsNaN(x) \/ IsNaN(y) THEN NaN
    ELSE IF IsInf(x) \/ IsInf(y)
         THEN (IF x[1] = 0 \/ y[1] = 0 THEN NaN ELSE <<Sign(x[1]) * Sign(y[1]), 0>>)
    ELSE LET g1 == GCD(Abs(x[1]), y[2])
             g2 == GCD(Abs(y[1]), x[2])
         IN  Norm((x[1] \div g1) * (y[1] \div g2), (x[2] \div g2) * (y[2] \div g1))

FDiv(x, y) ==
    IF IsNaN(x) \/ IsNaN(y) THEN NaN
    ELSE IF IsInf(y) THEN (IF IsInf(x) THEN NaN ELSE Num(0))
    ELSE IF y[1] = 0 THEN (IF x[1] = 0 THEN NaN ELSE <<Sign(x[1]), 0>>)
    ELSE IF IsInf(x) THEN <<Sign(x[1]) * Sign(y[1]), 0>>
    ELSE FMul(x, Norm(y[2], y[1]))

\* x <= y for floats that are not NaN
FLe(x, y) ==
    IF x = y THEN TRUE
    ELSE IF IsInf(x) THEN x[1] < 0
    ELSE IF IsInf(y) THEN y[1] > 0
    ELSE x[1] * y[2] <= y[1] * x[2]

RECURSIVE SeqSum(_)
SeqSum(s) == IF s = <<>> THEN 0 ELSE s[1] + SeqSum(Tail(s))

RECURSIVE SelectSeqIdx(_, _)
\* the indices of s, ascending, as a sequence, filtered by membership in keep
SelectSeqIdx(s, keep) ==
    IF s = <<>> THEN <<>>
    ELSE LET rest == SelectSeqIdx(SubSeq(s, 1, Len(s) - 1), keep)
         IN  IF Len(s) \in keep THEN Append(rest, s[Len(s)]) ELSE rest

Range(s) == {s[k] : k \in DOMAIN s}

-----------------------------------------------------------------------------
(* Ticker normalisation *)

\* what the user types between two commas
RawTokens == {<<"a">>, <<"A", " ">>, <<"b">>, <<"c">>, <<" ">>}

RECURSIVE Join(_)
Join(tokens) ==
    IF tokens = <<>> THEN <<>>
    ELSE IF Len(tokens) = 1 THEN tokens[1]
    ELSE tokens[1] \o <<",">> \o Join(Tail(tokens))

InputStrings == {Join(ts) : ts \in UNION {[1..n -> RawTokens] : n \in 0..MaxTokens}}

\* str.upper, one character
UpperChar(c) ==
    IF c = "a" THEN "A" ELSE IF c = "b" THEN "B" ELSE IF c = "c" THEN "C" ELSE c

Upper(s) == [k \in DOMAIN s |-> UpperChar(s[k])]

RECURSIVE LStrip(_)
LStrip(s) == IF s /= <<>> /\ s[1] = " " THEN LStrip(Tail(s)) ELSE s

RECURSIVE RStrip(_)
RStrip(s) ==
    IF s /= <<>> /\ s[Len(s)] = " " THEN RStrip(SubSeq(s, 1, Len(s) - 1)) ELSE s

\* str.strip
Strip(s) == RStrip(LStrip(s))

RECURSIVE Split(_)
\* str.split(","): the pieces between commas, empty pieces included
Split(s) ==
    IF \A k \in DOMAIN s : s[k] /= ","
    THEN <<s>>
    ELSE LET p == CHOOSE k \in DOMAIN s : s[k] = "," /\ \A m \in 1..(k - 1) : s[m] /= ","
         IN  <<SubSeq(s, 1, p - 1)>> \o Split(SubSeq(s, p + 1, Len(s)))

RECURSIVE NormalizeParts(_)
NormalizeParts(parts) ==
    IF parts = <<>> THEN <<>>
    ELSE IF Strip(parts[1]) /= <<>>
         THEN <<Upper(Strip(parts[1]))>> \o NormalizeParts(Tail(parts))
         ELSE NormalizeParts(Tail(parts))

\* tickers = [t.strip().upper() for t in tickers_input.split(",") if t.strip()]
Normalize(input) == NormalizeParts(Split(input))

-----------------------------------------------------------------------------
(* The provider: market data is a function of the symbol; whether a call
   raises is decided by the environment at each call. *)

\* a provider field: present with a number, or missing from the info dict
Present(v) == [has |-> TRUE, v |-> v]
Missing == [has |-> FALSE, v |-> 0]

\* yf.Ticker(ticker).info
ProviderInfo(ticker) ==
    IF ticker[1] = "A"
    THEN [currentPrice |-> Present(10), marketCap |-> Present(30), trailingPE |-> Missing]
    ELSE IF ticker[1] = "B"
    THEN [currentPrice |-> Present(20), marketCap |-> Missing, trailingPE |-> Present(20)]
    ELSE [currentPrice |-> Missing, marketCap |-> Missing, trailingPE |-> Missing]

\* yf.download(ticker, period="6mo", interval="1d")["Close"]: <<date, close>> rows, ascending
ProviderClose(ticker) ==
    IF ticker[1] = "A" THEN << <<1, 10>>, <<2, 11>>, <<3, 12>> >>
    ELSE IF ticker[1] = "B" THEN << <<1, 20>>, <<3, 22>> >>
    ELSE <<>>

-----------------------------------------------------------------------------
(* Metrics rows and the summary *)

NumCell(v) == [kind |-> "num", v |-> v]
PdNA == [kind |-> "NA", v |-> 0]         \* pd.NA
StrNA == [kind |-> "str", v |-> 0]       \* the string "N/A"

\* the default of info.get(key, default)
DefaultCell(var) == IF var = "csv" THEN PdNA ELSE StrNA

\* info.get(key, default)
InfoGet(field, default) == IF field.has THEN NumCell(field.v) ELSE default

\* the dict appended to data
MetricsRow(ticker, info, var) ==
    [Ticker |-> ticker,
     Price |-> InfoGet(info.currentPrice, DefaultCell(var)),
     MarketCap |-> InfoGet(info.marketCap, DefaultCell(var)),
     PE |-> InfoGet(info.trailingPE, DefaultCell(var))]

\* df[col]
Column(df, col) == [k \in DOMAIN df |-> df[k][col]]

\* Series.replace("N/A", pd.NA)
ReplaceNA(col) == [k \in DOMAIN col |-> IF col[k].kind = "str" THEN PdNA ELSE col[k]]

\* Series.fillna(0): the missing values counted as zeros
FillNAZero(col) == [k \in DOMAIN col |-> IF col[k].kind = "NA" THEN NumCell(0) ELSE col[k]]

\* Series.dropna()
DropNA(col) == SelectSeq(col, LAMBDA c : c.kind /= "NA")

\* Series.astype(float), of the numbers that are left
AsTypeFloat(col) == [k \in DOMAIN col |-> Num(col[k].v)]

RECURSIVE FSum(_)
FSum(xs) == IF xs = <<>> THEN Num(0) ELSE FAdd(FSum(SubSeq(xs, 1, Len(xs) - 1)), xs[Len(xs)])

\* Series.mean(): NaN for an empty series
Mean(xs) == IF xs = <<>> THEN NaN ELSE FDiv(FSum(xs), Num(Len(xs)))

\* df[col].replace("N/A", pd.NA).dropna().astype(float).mean()   (xlsx)
\* df[col].dropna().astype(float).mean()                         (csv)
Average(df, col, var) ==
    IF var = "csv"
    THEN Mean(AsTypeFloat(DropNA(Column(df, col))))
    ELSE Mean(AsTypeFloat(DropNA(ReplaceNA(Column(df, col)))))

Summary(df, var) ==
    [avg_pe |-> Average(df, "PE", var),
     avg_price |-> Average(df, "Price", var),
     avg_mcap |-> Average(df, "MarketCap", var)]

NoSummary == [avg_pe |-> NaN, avg_price |-> NaN, avg_mcap |-> NaN]

-----------------------------------------------------------------------------
(* The dict hist_data and the returns frame *)

DictKeys(d) == [k \in DOMAIN d |-> d[k][1]]

DictHas(d, key) == \E k \in DOMAIN d : d[k][1] = key

\* d[key] = value moved to the front of the dict
DictSetFront(d, key, value) ==
    <<<<key, value>>>> \o SelectSeq(d, LAMBDA e : e[1] /= key)

\* d[key] = value: a new key goes last, a known key keeps its place
DictSet(d, key, value) ==
    IF DictHas(d, key)
    THEN [k \in DOMAIN d |-> IF d[k][1] = key THEN <<key, value>> ELSE d[k]]
    ELSE Append(d, <<key, value>>)

SeriesDates(s) == {s[k][1] : k \in DOMAIN s}

SeriesAt(s, date) ==
    IF date \in SeriesDates(s)
    THEN Num(s[CHOOSE k \in DOMAIN s : s[k][1] = date][2])
    ELSE NaN

RECURSIVE SortedSeq(_)
\* a set of dates as an ascending sequence
SortedSeq(S) ==
    IF S = {} THEN <<>>
    ELSE LET m == CHOOSE x \in S : \A y \in S : y <= x
         IN  Append(SortedSeq(S \ {m}), m)

\* pd.DataFrame(hist_data): columns in key order, index the sorted union of the
\* series' dates, NaN where a series has no value
DataFrame(d) ==
    LET idx == SortedSeq(UNION {SeriesDates(d[k][2]) : k \in DOMAIN d})
    IN  [index |-> idx,
         columns |-> DictKeys(d),
         cell |-> [r \in DOMAIN idx |-> [c \in DOMAIN d |-> SeriesAt(d[c][2], idx[r])]]]

\* DataFrame.ffill(), one column: the last value at or before row r
RECURSIVE FFill(_, _, _)
FFill(cell, r, c) ==
    IF r = 0 THEN NaN
    ELSE IF ~IsNaN(cell[r][c]) THEN cell[r][c]
    ELSE FFill(cell, r - 1, c)

\* DataFrame.pct_change(): x / x.shift(1) - 1, on the forward-filled frame when
\* fill_method is "pad"
PctChange(df, pad) ==
    LET val(r, c) == IF pad THEN FFill(df.cell, r, c) ELSE df.cell[r][c]
    IN  [df EXCEPT !.cell =
            [r \in DOMAIN df.index |-> [c \in DOMAIN df.columns |->
                IF r = 1 THEN NaN
                ELSE FSub(FDiv(val(r, c), val(r - 1, c)), Num(1))]]]

\* DataFrame.dropna(): the rows without any NaN
FrameDropNA(df) ==
    LET keep == {r \in DOMAIN df.index : \A c \in DOMAIN df.columns : ~IsNaN(df.cell[r][c])}
    IN  [index |-> SelectSeqIdx(df.index, keep),
         columns |-> df.columns,
         cell |-> SelectSeqIdx(df.cell, keep)]

\* frame * 100
FrameTimes(df, k) ==
    [df EXCEPT !.cell =
        [r \in DOMAIN df.index |-> [c \in DOMAIN df.columns |-> FMul(df.cell[r][c], Num(k))]]]

\* returns = hist_df.pct_change().dropna() * 100
Returns(d, pad) == FrameTimes(FrameDropNA(PctChange(DataFrame(d), pad)), 100)

\* pct_change's default fill_method is "pad" up to pandas 2 and None from pandas 3:
\* the frames the installed pandas can produce
ReturnsOutcomes(d) == {Returns(d, pad) : pad \in BOOLEAN}

NoFrame == [index |-> <<>>, columns |-> <<>>, cell |-> <<>>]
-----------------------------------------------------------------------------
(* Indicators, on a column of floats *)

Floats(xs) == [k \in DOMAIN xs |-> Num(xs[k])]

RECURSIVE RollingWindow(_, _, _, _, _, _)
\* the sliding window: each value is added to the sum as it enters the window and
\* subtracted as it leaves it; the mean is emitted once minp values are in
RollingWindow(xs, n, minp, k, acc, out) ==
    IF k > Len(xs) THEN out
    ELSE LET entered == FAdd(acc, xs[k])
             sum == IF k > n THEN FSub(entered, xs[k - n]) ELSE entered
             nobs == IF k > n THEN n ELSE k
             mean == IF nobs >= minp THEN FDiv(sum, Num(nobs)) ELSE NaN
         IN  RollingWindow(xs, n, minp, k + 1, sum, Append(out, mean))

\* Series.rolling(window=n, min_periods=1).mean(): partial windows averaged
RollingMeanPartial(xs, n) == RollingWindow(xs, n, 1, 1, Num(0), <<>>)

\* Series.rolling(window=n).mean(): min_periods is the window, so the first
\* n - 1 positions are NaN
RollingMean(xs, n) == RollingWindow(xs, n, n, 1, Num(0), <<>>)

\* Series.diff()
Diff(xs) == [k \in DOMAIN xs |-> IF k = 1 THEN NaN ELSE FSub(xs[k], xs[k - 1])]

\* delta.where(delta > 0, 0)
WherePositive(xs) ==
    [k \in DOMAIN xs |-> IF ~IsNaN(xs[k]) /\ xs[k][1] > 0 THEN xs[k] ELSE Num(0)]

\* delta.where(delta < 0, 0)
WhereNegative(xs) ==
    [k \in DOMAIN xs |-> IF ~IsNaN(xs[k]) /\ xs[k][1] < 0 THEN xs[k] ELSE Num(0)]

\* -series
Negate(xs) == [k \in DOMAIN xs |-> FNeg(xs[k])]

\* gain = (delta.where(delta > 0, 0)).rolling(window=14).mean()
Gain(close) ==
    LET delta == Diff(close)
        gains == WherePositive(delta)
    IN  RollingMean(gains, 14)

\* loss = (-delta.where(delta < 0, 0)).rolling(window=14).mean()
Loss(close) ==
    LET delta == Diff(close)
        losses == Negate(WhereNegative(delta))
    IN  RollingMean(losses, 14)

\* 100 - 100 / (1 + rs), with rs replaced by 0 where the loss is 0
RSIFromZeroFilled(gain, loss) ==
    [k \in DOMAIN gain |->
        LET rs == IF loss[k] = Num(0) THEN Num(0) ELSE FDiv(gain[k], loss[k])
        IN  FSub(Num(100), FDiv(Num(100), FAdd(Num(1), rs)))]

\* rs = gain / loss;  hist["RSI"] = 100 - (100 / (1 + rs))
RSIFrom(gain, loss) ==
    [k \in DOMAIN gain |->
        LET rs == FDiv(gain[k], loss[k])
        IN  FSub(Num(100), FDiv(Num(100), FAdd(Num(1), rs)))]

RSI14(close) ==
    LET gain == Gain(close)
        loss == Loss(close)
    IN  RSIFrom(gain, loss)

RECURSIVE EwmSmoothed(_, _)
\* the recurrence with the smoothing factor 1 / span
EwmSmoothed(xs, span) ==
    IF xs = <<>> THEN <<>>
    ELSE IF Len(xs) = 1 THEN xs
    ELSE LET prev == EwmSmoothed(SubSeq(xs, 1, Len(xs) - 1), span)
             alpha == Norm(1, span)
         IN  Append(prev, FAdd(FMul(FSub(Num(1), alpha), prev[Len(prev)]),
                               FMul(alpha, xs[Len(xs)])))

RECURSIVE Ewm(_, _)
\* Series.ewm(span=span, adjust=False).mean():
\* y[0] = x[0];  y[t] = (1 - alpha) * y[t-1] + alpha * x[t],  alpha = 2 / (span + 1)
Ewm(xs, span) ==
    IF xs = <<>> THEN <<>>
    ELSE IF Len(xs) = 1 THEN xs
    ELSE LET prev == Ewm(SubSeq(xs, 1, Len(xs) - 1), span)
             alpha == Norm(2, span + 1)
         IN  Append(prev, FAdd(FMul(FSub(Num(1), alpha), prev[Len(prev)]),
                               FMul(alpha, xs[Len(xs)])))

\* exp1 - exp2
SeriesSub(xs, ys) == [k \in DOMAIN xs |-> FSub(xs[k], ys[k])]

-----------------------------------------------------------------------------
(* The script run: text input, "Generate Watchlist", fetch loop, display, chart loop *)

RowTickers(df) == [k \in DOMAIN df |-> df[k].Ticker]

Call(fn, ticker, phase) == [fn |-> fn, ticker |-> ticker, phase |-> phase]

\* fetch_price_data is served from st.cache_data without a provider call (csv)
Cached(ticker) == variant = "csv" /\ ticker \in cache

DownloadCalls(ticker, phase) ==
    IF Cached(ticker) THEN <<>> ELSE <<Call("download", ticker, phase)>>

CloseValues(series) == [k \in DOMAIN series |-> series[k][2]]

\* the chart loop's body: the indicator columns added to hist
Chart(ticker, close, var) ==
    LET x == Floats(close)
        macd == SeriesSub(Ewm(x, 12), Ewm(x, 26))
    IN  [Ticker |-> ticker,
         Close |-> x,
         SMA20 |-> RollingMean(x, 20),
         SMA50 |-> RollingMean(x, 50),
         RSI |-> IF var = "xlsx" THEN RSI14(x) ELSE <<>>,
         MACD |-> IF var = "xlsx" THEN macd ELSE <<>>,
         Signal |-> IF var = "xlsx" THEN Ewm(macd, 9) ELSE <<>>]

IndInit ==
    /\ Close = <<>> /\ SMA20 = <<>> /\ SMA50 = <<>> /\ RSI = <<>>
    /\ exp1 = <<>> /\ exp2 = <<>> /\ MACD = <<>> /\ Signal = <<>>

RunInit ==
    /\ tickers = <<>> /\ i = 0 /\ data = <<>> /\ hist_data = <<>> /\ cache = {}
    /\ errors = <<>> /\ warnings = <<>> /\ calls = <<>> /\ charts = <<>>
    /\ avg = NoSummary /\ returns = NoFrame

Init ==
    /\ variant \in {"csv", "xlsx"}
    /\ pc = "input"
    /\ tickers_input \in InputStrings
    /\ RunInit
    /\ IndInit

\* the script's top and the button: tickers, data = [], hist_data = {}
GenerateWatchlist ==
    /\ pc = "input"
    /\ tickers' = Normalize(tickers_input)
    /\ data' = <<>>
    /\ hist_data' = <<>>
    /\ i' = 1
    /\ pc' = "fetch"
    /\ UNCHANGED <<variant, tickers_input, cache, errors, warnings, calls, charts, avg,
                   returns>>

\* stock.info raises: the except branch reports the ticker
FetchInfoRaises ==
    /\ pc = "fetch" /\ i <= Len(tickers)
    /\ calls' = Append(calls, Call("info", tickers[i], "fetch"))
    /\ errors' = Append(errors, tickers[i])
    /\ i' = i + 1
    /\ UNCHANGED <<variant, pc, tickers_input, tickers, data, hist_data, cache, warnings,
                   charts, avg, returns>>

\* stock.info returns and the row is appended; then the download raises
FetchDownloadRaises ==
    /\ pc = "fetch" /\ i <= Len(tickers)
    /\ ~Cached(tickers[i])
    /\ calls' = calls \o <<Call("info", tickers[i], "fetch"),
                           Call("download", tickers[i], "fetch")>>
    /\ data' = Append(data, MetricsRow(tickers[i], ProviderInfo(tickers[i]), variant))
    /\ errors' = Append(errors, tickers[i])
    /\ i' = i + 1
    /\ UNCHANGED <<variant, pc, tickers_input, tickers, hist_data, cache, warnings,
                   charts, avg, returns>>

\* both calls return: a row and a Close series
FetchOk ==
    /\ pc = "fetch" /\ i <= Len(tickers)
    /\ calls' = calls \o <<Call("info", tickers[i], "fetch")>>
                      \o DownloadCalls(tickers[i], "fetch")
    /\ data' = Append(data, MetricsRow(tickers[i], ProviderInfo(tickers[i]), variant))
    /\ hist_data' = DictSet(hist_data, tickers[i], ProviderClose(tickers[i]))
    /\ cache' = IF variant = "csv" THEN cache \cup {tickers[i]} ELSE cache
    /\ i' = i + 1
    /\ UNCHANGED <<variant, pc, tickers_input, tickers, errors, warnings, charts, avg,
                   returns>>

\* after the loop: "if data:" table, summary, heatmap; otherwise nothing more
Display ==
    /\ pc = "fetch" /\ i > Len(tickers)
    /\ IF data /= <<>>
       THEN /\ avg' = Summary(data, variant)
            /\ returns' \in IF hist_data /= <<>> THEN ReturnsOutcomes(hist_data) ELSE {NoFrame}
            /\ i' = 1
            /\ pc' = "charts"
       ELSE /\ pc' = "done"
            /\ UNCHANGED <<avg, returns, i>>
    /\ UNCHANGED <<variant, tickers_input, tickers, data, hist_data, cache, errors,
                   warnings, calls, charts>>

\* the chart loop's download raises: a warning
ChartRaises ==
    /\ pc = "charts" /\ i <= Len(tickers)
    /\ ~Cached(tickers[i])
    /\ calls' = Append(calls, Call("download", tickers[i], "charts"))
    /\ warnings' = Append(warnings, tickers[i])
    /\ i' = i + 1
    /\ UNCHANGED <<variant, pc, tickers_input, tickers, data, hist_data, cache, errors,
                   charts, avg, returns>>

\* the chart loop's download returns: indicators computed and plotted
ChartOk ==
    /\ pc = "charts" /\ i <= Len(tickers)
    /\ calls' = calls \o DownloadCalls(tickers[i], "charts")
    /\ cache' = IF variant = "csv" THEN cache \cup {tickers[i]} ELSE cache
    /\ charts' = Append(charts, Chart(tickers[i], CloseValues(ProviderClose(tickers[i])), variant))
    /\ i' = i + 1
    /\ UNCHANGED <<variant, pc, tickers_input, tickers, data, hist_data, errors, warnings,
                   avg, returns>>

ChartsEnd ==
    /\ pc = "charts" /\ i > Len(tickers)
    /\ pc' = "done"
    /\ UNCHANGED <<variant, tickers_input, tickers, i, data, hist_data, cache, errors,
                   warnings, calls, charts, avg, returns>>

Next ==
    \/ (GenerateWatchlist /\ UNCHANGED indVars)
    \/ (FetchInfoRaises /\ UNCHANGED indVars)
    \/ (FetchDownloadRaises /\ UNCHANGED indVars)
    \/ (FetchOk /\ UNCHANGED indVars)
    \/ (Display /\ UNCHANGED indVars)
    \/ (ChartRaises /\ UNCHANGED indVars)
    \/ (ChartOk /\ UNCHANGED indVars)
    \/ (ChartsEnd /\ UNCHANGED indVars)

Spec == Init /\ [][Next]_vars

-----------------------------------------------------------------------------
(* The summary on metrics tables drawn directly *)

PriceValues == {10, 20}
MarketCapValues == {30}
PEValues == {10, 20}

CellsOf(values, var) == {DefaultCell(var)} \cup {NumCell(v) : v \in values}

\* the rows the fetch loop can append
TableRows(var) ==
    [Ticker : {<<"A">>},
     Price : CellsOf(PriceValues, var),
     MarketCap : CellsOf(MarketCapValues, var),
     PE : CellsOf(PEValues, var)]

SummaryInit ==
    /\ variant \in {"csv", "xlsx"}
    /\ pc = "table"
    /\ tickers_input = <<>>
    /\ tickers = <<>> /\ i = 0 /\ hist_data = <<>> /\ cache = {}
    /\ errors = <<>> /\ warnings = <<>> /\ calls = <<>> /\ charts = <<>>
    /\ avg = NoSummary /\ returns = NoFrame
    /\ data \in UNION {[1..n -> TableRows(variant)] : n \in 0..MaxRows}
    /\ IndInit

\* "if data:" the three averages
Summarise ==
    /\ pc = "table"
    /\ IF data /= <<>>
       THEN avg' = Summary(data, variant) /\ pc' = "summarised"
       ELSE avg' = avg /\ pc' = "done"
    /\ UNCHANGED <<variant, tickers_input, tickers, i, data, hist_data, cache, errors,
                   warnings, calls, charts, returns>>

SummaryNext == Summarise /\ UNCHANGED indVars

SpecSummary == SummaryInit /\ [][SummaryNext]_vars

-----------------------------------------------------------------------------
(* The returns frame on price series drawn directly *)

\* the close of a symbol on a trading day
PriceOf(sym, date) == (IF sym = <<"A">> THEN 10 ELSE 20) + date * date

\* the symbol's series on the days it traded
SeriesOn(sym, dates) ==
    LET idx == SortedSeq(dates)
    IN  [k \in DOMAIN idx |-> <<idx[k], PriceOf(sym, idx[k])>>]

KeyOrders == {<<>>, << <<"A">> >>, << <<"B">> >>, << <<"A">>, <<"B">> >>, << <<"B">>, <<"A">> >>}

HistDicts ==
    UNION {{[k \in DOMAIN keys |-> <<keys[k], SeriesOn(keys[k], days[k])>>] :
                days \in [DOMAIN keys -> SUBSET (1..MaxDate)]} : keys \in KeyOrders}

ReturnsInit ==
    /\ variant \in {"csv", "xlsx"}
    /\ pc = "heatmap"
    /\ tickers_input = <<>>
    /\ tickers = <<>> /\ i = 0 /\ data = <<>> /\ cache = {}
    /\ errors = <<>> /\ warnings = <<>> /\ calls = <<>> /\ charts = <<>>
    /\ avg = NoSummary /\ returns = NoFrame
    /\ hist_data \in HistDicts
    /\ IndInit

\* "if hist_data:" the returns of the heatmap
Heatmap ==
    /\ pc = "heatmap"
    /\ IF hist_data /= <<>>
       THEN returns' \in ReturnsOutcomes(hist_data) /\ pc' = "heatmap_done"
       ELSE returns' = returns /\ pc' = "done"
    /\ UNCHANGED <<variant, tickers_input, tickers, i, data, hist_data, cache, errors,
                   warnings, calls, charts, avg>>

ReturnsNext == Heatmap /\ UNCHANGED indVars

SpecReturns == ReturnsInit /\ [][ReturnsNext]_vars

-----------------------------------------------------------------------------
(* The indicators on close series drawn directly *)

\* level until position p, level + d from p on
StepSeries(len, level, p, d) == [k \in 1..len |-> IF k >= p THEN level + d ELSE level]

OneStepSeries ==
    UNION {{StepSeries(len, 10, p, 3) : p \in 1..(len + 1)} : len \in 0..MaxLen}

TwoStepSeries ==
    {[k \in 1..len |-> 10 + (IF k >= p1 THEN d1 ELSE 0) + (IF k >= p2 THEN d2 ELSE 0)] :
        len \in 0..MaxRsiLen, p1 \in 2..MaxRsiLen, p2 \in 3..(MaxRsiLen + 1),
        d1 \in {-1, 1}, d2 \in {-1, 2}}

FreeSeries == UNION {[1..n -> 10..16] : n \in 0..MaxEmaLen}

CloseSeries == OneStepSeries \cup TwoStepSeries \cup FreeSeries

IndicatorsInit ==
    /\ variant = "xlsx"
    /\ pc = "sma"
    /\ tickers_input = <<>>
    /\ RunInit
    /\ Close \in CloseSeries
    /\ SMA20 = <<>> /\ SMA50 = <<>> /\ RSI = <<>>
    /\ exp1 = <<>> /\ exp2 = <<>> /\ MACD = <<>> /\ Signal = <<>>

\* hist["SMA20"], hist["SMA50"]
ComputeSMA ==
    /\ pc = "sma"
    /\ SMA20' = RollingMean(Floats(Close), 20)
    /\ SMA50' = RollingMean(Floats(Close), 50)
    /\ pc' = "rsi"
    /\ UNCHANGED <<Close, RSI, exp1, exp2, MACD, Signal>>

\* delta, gain, loss, rs, hist["RSI"]
ComputeRSI ==
    /\ pc = "rsi"
    /\ RSI' = RSI14(Floats(Close))
    /\ pc' = "macd"
    /\ UNCHANGED <<Close, SMA20, SMA50, exp1, exp2, MACD, Signal>>

\* exp1, exp2, hist["MACD"], hist["Signal"]
ComputeMACD ==
    /\ pc = "macd"
    /\ Len(Close) <= MaxEmaLen
    /\ exp1' = Ewm(Floats(Close), 12)
    /\ exp2' = Ewm(Floats(Close), 26)
    /\ MACD' = SeriesSub(exp1', exp2')
    /\ Signal' = Ewm(MACD', 9)
    /\ pc' = "plot"
    /\ UNCHANGED <<Close, SMA20, SMA50, RSI>>

IndicatorsNext ==
    \/ (ComputeSMA /\ UNCHANGED <<variant, tickers_input, tickers, i, data, hist_data, cache,
                                  errors, warnings, calls, charts, avg, returns>>)
    \/ (ComputeRSI /\ UNCHANGED <<variant, tickers_input, tickers, i, data, hist_data, cache,
                                  errors, warnings, calls, charts, avg, returns>>)
    \/ (ComputeMACD /\ UNCHANGED <<variant, tickers_input, tickers, i, data, hist_data, cache,
                                   errors, warnings, calls, charts, avg, returns>>)

SpecIndicators == IndicatorsInit /\ [][IndicatorsNext]_vars

-----------------------------------------------------------------------------
(* Properties *)

NoDuplicates(s) == \A a, b \in DOMAIN s : a /= b => s[a] /= s[b]

Count(s, x) == Cardinality({k \in DOMAIN s : s[k] = x})

RECURSIVE IsSubsequence(_, _)
\* sub is what is left of s after removing some of its elements
IsSubsequence(sub, s) ==
    IF sub = <<>> THEN TRUE
    ELSE IF s = <<>> THEN FALSE
    ELSE IF sub[1] = s[1] THEN IsSubsequence(Tail(sub), Tail(s))
    ELSE IsSubsequence(sub, Tail(s))

PositionOf(s, x) == CHOOSE k \in DOMAIN s : s[k] = x

FetchLoopDone == pc \in {"charts", "done"}

\* C1: after the fetch loop over a list of distinct symbols, every symbol with a
\* reported error has exactly one error and no row, every other symbol has a row
\* (so every symbol after a failing one was processed).
C1_ErrorIsolation ==
    (FetchLoopDone /\ NoDuplicates(tickers)) =>
        \A k \in DOMAIN tickers :
            IF tickers[k] \in Range(errors)
            THEN Count(errors, tickers[k]) = 1 /\ tickers[k] \notin Range(RowTickers(data))
            ELSE tickers[k] \in Range(RowTickers(data))

\* a symbol precedes another in s, for symbols that occur once
PrecedesIn(s, x, y) ==
    /\ Count(s, x) = 1 /\ Count(s, y) = 1
    /\ PositionOf(s, x) < PositionOf(s, y)

\* C2: the rows of the metrics table and the symbols of the returns frame keep the
\* order of the input: each is the input list with some symbols removed, and of two
\* symbols that both appear, the one first in the input comes first.
C2_InputOrder ==
    /\ IsSubsequence(RowTickers(data), tickers)
    /\ IsSubsequence(DictKeys(hist_data), tickers)
    /\ pc \in {"charts", "done"} /\ data /= <<>> /\ hist_data /= <<>>
            => returns.columns = DictKeys(hist_data)
    /\ \A x, y \in Range(tickers) :
            PrecedesIn(tickers, x, y) =>
                /\ (x \in Range(RowTickers(data)) /\ y \in Range(RowTickers(data)))
                        => PrecedesIn(RowTickers(data), x, y)
                /\ (DictHas(hist_data, x) /\ DictHas(hist_data, y))
                        => PrecedesIn(DictKeys(hist_data), x, y)

\* three distinct symbols, the middle one failed, the outer two in table and frame
C2_Witness ==
    /\ pc = "done"
    /\ tickers = << <<"A">>, <<"C">>, <<"B">> >>
    /\ errors = << <<"C">> >>
    /\ RowTickers(data) = << <<"A">>, <<"B">> >>
    /\ returns.columns = << <<"A">>, <<"B">> >>

\* C9: a symbol with a reported fetch error has no chart and no provider call in the
\* chart loop (input of distinct symbols).
C9_FailedSymbolNotCharted ==
    (pc = "done" /\ NoDuplicates(tickers)) =>
        \A k \in DOMAIN errors :
            /\ \A c \in DOMAIN charts : charts[c].Ticker /= errors[k]
            /\ \A c \in DOMAIN calls :
                    ~(calls[c].phase = "charts" /\ calls[c].ticker = errors[k])

\* C10: the normalised ticker list holds each symbol once, and after the fetch loop
\* every requested symbol without an error has exactly one row.
C10_UniqueSymbols ==
    /\ pc /= "input" => NoDuplicates(tickers)
    /\ pc \in {"charts", "done"} =>
            \A k \in DOMAIN tickers :
                tickers[k] \notin Range(errors) => Count(RowTickers(data), tickers[k]) = 1

PresentRows(df, col) == {k \in DOMAIN df : df[k][col].kind = "num"}

RECURSIVE SumOver(_, _, _)
\* the sum of the numbers of a column over a set of rows
SumOver(df, col, rows) ==
    IF rows = {} THEN 0
    ELSE LET k == CHOOSE r \in rows : TRUE
         IN  df[k][col].v + SumOver(df, col, rows \ {k})

\* value is the mean of the present numbers of the column, NaN when there is none
IsMeanOfPresent(value, df, col) ==
    LET rows == PresentRows(df, col)
    IN  IF rows = {} THEN IsNaN(value)
        ELSE /\ IsFinite(value)
             /\ value[1] * Cardinality(rows) = SumOver(df, col, rows) * value[2]

\* C3: each summary average is the mean of its field over the rows where the field
\* is present, and is not available when no row has it; P/E values
\* [10, not available, 20] average to 15.
C3_AveragesOverPresent ==
    pc = "summarised" =>
        /\ IsMeanOfPresent(avg.avg_price, data, "Price")
        /\ IsMeanOfPresent(avg.avg_mcap, data, "MarketCap")
        /\ IsMeanOfPresent(avg.avg_pe, data, "PE")
        /\ (/\ Len(data) = 3
            /\ data[1].PE = NumCell(10) /\ data[2].PE.kind /= "num" /\ data[3].PE = NumCell(20))
                => avg.avg_pe = Num(15)

\* P/E [10, n/a, 20] gives 15, with all three prices present and no market cap
C3_Witness ==
    /\ pc = "summarised"
    /\ Len(data) = 3
    /\ data[1].PE = NumCell(10) /\ data[2].PE.kind /= "num" /\ data[3].PE = NumCell(20)
    /\ avg.avg_pe = Num(15)
    /\ Cardinality(PresentRows(data, "Price")) = 3
    /\ IsNaN(avg.avg_mcap)

RECURSIVE Intersection(_)
Intersection(sets) ==
    IF sets = {} THEN {}
    ELSE LET one == CHOOSE x \in sets : TRUE
         IN  IF sets = {one} THEN one ELSE one \cap Intersection(sets \ {one})

\* the dates on which every symbol of the dict has a close, ascending
CommonDates(d) == SortedSeq(Intersection({SeriesDates(d[k][2]) : k \in DOMAIN d}))

\* (close[r] - close[r-1]) / close[r-1] * 100 on the common dates
InnerJoinReturn(series, common, r) ==
    LET now == series[CHOOSE k \in DOMAIN series : series[k][1] = common[r]][2]
        before == series[CHOOSE k \in DOMAIN series : series[k][1] = common[r - 1]][2]
    IN  Norm((now - before) * 100, before)

\* C4: the returns frame is the daily percentage return on the inner join of the
\* series: its dates are the common dates without the first, each cell the return
\* against the close of the previous common date.
C4_InnerJoinReturns ==
    pc = "heatmap_done" =>
        LET common == CommonDates(hist_data)
        IN  /\ returns.index = (IF common = <<>> THEN <<>> ELSE Tail(common))
            /\ \A r \in DOMAIN returns.index : \A c \in DOMAIN returns.columns :
                    returns.cell[r][c] = InnerJoinReturn(hist_data[c][2], common, r + 1)

WindowSum(close, k, n) == SeqSum(SubSeq(close, k - n + 1, k))

AvailableCount(xs) == Cardinality({k \in DOMAIN xs : ~IsNaN(xs[k])})

Max(a, b) == IF a > b THEN a ELSE b

IsSMA(sma, close, n) ==
    /\ Len(sma) = Len(close)
    /\ \A k \in DOMAIN close :
          IF k < n THEN IsNaN(sma[k])
          ELSE IsFinite(sma[k]) /\ sma[k][1] * n = WindowSum(close, k, n) * sma[k][2]
    /\ AvailableCount(sma) = Max(0, Len(close) - n + 1)

\* C6: SMA(n), n = 20 and 50, has the length of the series, is not available before
\* index n - 1 and is the mean of the n closes ending at the index from there on, so
\* it has max(0, L - n + 1) available values.
C6_SMA ==
    pc \in {"rsi", "macd", "plot"} => IsSMA(SMA20, Close, 20) /\ IsSMA(SMA50, Close, 50)

\* a series long enough for SMA50, whose window holds the step: a mean that is no close
C6_Witness ==
    /\ pc = "rsi"
    /\ Len(Close) >= 51
    /\ SMA50[51][2] /= 1
    /\ SMA20[20][2] /= 1
    /\ IsNaN(SMA50[49])

\* the day-over-day gains and losses of the 14 positions ending at k; the first
\* position of a series has no delta and counts as 0
GainAt(close, j) == IF j > 1 /\ close[j] > close[j - 1] THEN close[j] - close[j - 1] ELSE 0
LossAt(close, j) == IF j > 1 /\ close[j] < close[j - 1] THEN close[j - 1] - close[j] ELSE 0

RECURSIVE GainSum(_, _, _)
GainSum(close, lo, hi) == IF lo > hi THEN 0 ELSE GainAt(close, hi) + GainSum(close, lo, hi - 1)

RECURSIVE LossSum(_, _, _)
LossSum(close, lo, hi) == IF lo > hi THEN 0 ELSE LossAt(close, hi) + LossSum(close, lo, hi - 1)

IsRSI(rsi, close) ==
    /\ Len(rsi) = Len(close)
    /\ \A k \in DOMAIN close :
          LET g == GainSum(close, k - 13, k)
              l == LossSum(close, k - 13, k)
          IN  /\ IsNaN(rsi[k]) \/ (FLe(Num(0), rsi[k]) /\ FLe(rsi[k], Num(100)))
              /\ k < 14 => IsNaN(rsi[k])
              /\ (k >= 14 /\ l = 0 /\ g > 0) => rsi[k] = Num(100)
              /\ (k >= 14 /\ l = 0 /\ g = 0) => IsNaN(rsi[k])
              /\ (k >= 14 /\ l > 0) =>
                    /\ IsFinite(rsi[k])
                    /\ rsi[k][1] * (g + l) = 100 * g * rsi[k][2]

\* C5: RSI(14) is not available or in [0, 100]; not available at the first 13
\* positions and on a flat window, 100 when the window has gains and no loss, and
\* 100 - 100 / (1 + avgGain / avgLoss) otherwise.
C5_RSI == pc \in {"macd", "plot"} => IsRSI(RSI, Close)

\* one series with a flat window, a window of gains only and a mixed window
C5_Witness ==
    /\ pc = "macd"
    /\ \E a, b, c \in 14..Len(Close) :
          /\ IsNaN(RSI[a])
          /\ RSI[b] = Num(100)
          /\ IsFinite(RSI[c]) /\ RSI[c] /= Num(100) /\ RSI[c] /= Num(0)

IsEMA(ema, xs, span) ==
    LET k == Norm(2, span + 1)
    IN  /\ Len(ema) = Len(xs)
        /\ \A t \in DOMAIN xs :
              IF t = 1 THEN ema[t] = xs[t]
              ELSE ema[t] = FAdd(FMul(xs[t], k), FMul(ema[t - 1], FSub(Num(1), k)))

\* C7: the EMAs follow ema[0] = x[0], ema[i] = x[i]*k + ema[i-1]*(1-k), k = 2/(span+1);
\* MACD is ema12 - ema26 of the closes and Signal the span 9 EMA of MACD; closes
\* [10, 11, 12, 11, 13] with span 3 give [10, 10.5, 11.25, 11.125, 12.0625].
C7_EMA ==
    /\ Ewm(Floats(<<10, 11, 12, 11, 13>>), 3)
            = <<Num(10), Norm(21, 2), Norm(45, 4), Norm(89, 8), Norm(193, 16)>>
    /\ pc = "plot" =>
          /\ IsEMA(exp1, Floats(Close), 12)
          /\ IsEMA(exp2, Floats(Close), 26)
          /\ Len(MACD) = Len(Close)
          /\ \A t \in DOMAIN Close : MACD[t] = FSub(exp1[t], exp2[t])
          /\ IsEMA(Signal, MACD, 9)

\* two closes that differ: MACD and Signal leave zero and each other
C7_Witness ==
    /\ pc = "plot"
    /\ Len(Close) = MaxEmaLen
    /\ Close[1] /= Close[2]
    /\ MACD[2] /= Num(0)
    /\ Signal[2] /= MACD[2]
    /\ exp1[2] /= exp2[2]

\* C8: for a series of fewer than 2 points every indicator output is not available
\* at every position.
C8_ShortSeriesNotAvailable ==
    (pc = "plot" /\ Len(Close) < 2) =>
        \A k \in DOMAIN Close :
            /\ IsNaN(SMA20[k]) /\ IsNaN(SMA50[k]) /\ IsNaN(RSI[k])
            /\ IsNaN(MACD[k]) /\ IsNaN(Signal[k])


====
